---- MODULE Spec2Model ----
(***************************************************************************)
(* Sidechain ducking controller of OBServe (src-tauri/src/ducking.rs),     *)
(* together with the parts of the OBS connection it depends on: the local  *)
(* mirror of the input volumes (obs_state), the InputVolumeChanged events  *)
(* that update it (obs_websocket.rs) and the externally mutable ducking    *)
(* configuration (commands.rs).                                            *)
(*                                                                         *)
(* One Tick step is one whole iteration of the loop of start_ducking_loop. *)
(* Volumes are integral dB values; time is counted in 50 ms ticks, and an  *)
(* elapsed time read with as_millis() is the nominal time minus the        *)
(* truncation of the sub-millisecond offset between the two instants.      *)
(* Remote round trips are taken to complete well within one tick.          *)
(*                                                                         *)
(* The second part models the capture owners (spectrum.rs,                 *)
(* narration_capture.rs, pad_capture.rs): the start and stop commands, the *)
(* command channel and the capture thread with its capture loop. One owner *)
(* is modelled at a time; its threads and its caller interleave freely.    *)
(*                                                                         *)
(* Further parts model the peak-meter polling task with the shared metrics *)
(* snapshot (audio_monitor.rs), the spectrum analysis inside run_capture   *)
(* (spectrum.rs) and the trigger level conversion of the ducking loop.     *)
(***************************************************************************)
EXTENDS Integers, Sequences, FiniteSets, TLC

VARIABLES
    config,              \* the shared DuckingConfig
    status,              \* DuckingStatus of the loop
    original_volume_db,  \* Option<f64>: the original-volume cache
    state_ticks,         \* ticks since state_entered_at was set (saturating)
    last_self_set,       \* Nil, or Some(ticks since last_self_set was set), saturating
    trigger_device_id,   \* the loop's local of the latest tick (None if not resolved or not reached)
    voice_active,        \* the loop's local of the latest tick (FALSE if not reached)
    elapsed,             \* the loop's local of the latest tick in ms (0 if not reached)
    obs_volume,          \* obs_state.inputs[t].volume_db for each target t
    remote_volume,       \* the volume of each target inside the remote application
    events,              \* InputVolumeChanged events in flight on the websocket
    sent,                \* log of the SetInputVolume requests issued by the loop
    notified,            \* None, or the status emitted by the latest tick
    last_emitted,        \* the status emitted last ("Disabled" before the first)
    volume_read,         \* NoRead, or how the latest tick read the target volume
    edits,               \* number of external volume edits so far
    scn,                 \* scenario monitor: -1 off, 0 waiting, k = k scenario ticks seen
    scnTrace,            \* statuses passed through since the scenario started
    owner,               \* the capture owner modelled: spectrum, narration or pad
    capture_state,       \* SpectrumState / NarrationCaptureState / PadCaptureState
    caller,              \* the command in progress (start sleeps holding the lock)
    channel,             \* the commands in flight to each capture thread
    thread,              \* each capture thread: its position and its session
    output,              \* Nil, or Some of the data of the WAV file written last
    packets,             \* number of packets delivered by the endpoints so far
    extraction,          \* a call of extract_samples: its arguments and its result
    audio_metrics,       \* the shared AudioMetrics snapshot: device id -> DeviceMetrics
    poller,              \* the polling task: its position, its windows, its latest pass
    peak_levels,         \* Nil, or Some of the levels notified by the latest pass
    metrics_read,        \* Nil, or Some of the snapshot a reader took last
    smoothed_bins,       \* smoothed_bins of run_capture
    fft_data,            \* the spectrum frame emitted last, and how many were emitted
    analyzer,            \* ring buffer length and emit clocks of run_capture
    trigger_level        \* a peak, a threshold and the trigger level computed from them

ducking_vars ==
    << config, status, original_volume_db, state_ticks, last_self_set,
       trigger_device_id, voice_active, elapsed, obs_volume, remote_volume,
       events, sent, notified, last_emitted, volume_read, edits, scn, scnTrace >>

capture_vars ==
    << owner, capture_state, caller, channel, thread, output, packets, extraction >>

monitor_vars == << audio_metrics, poller, peak_levels, metrics_read >>

analysis_vars == << smoothed_bins, fft_data, analyzer >>

vars == << ducking_vars, capture_vars, monitor_vars, analysis_vars, trigger_level >>

-----------------------------------------------------------------------------
(* Bounds of the model *)

MaxCmds == 2
MaxEdits == 1
MaxCalls == 3
MaxPackets == 2
MaxFrames == 2
MaxChannels == 2
StateTickCap == 3
ScnEnd == 12
FreePasses == 3
MaxPasses == 56
MaxSpectra == 3

(* Program constants *)

TickMs == 50
SelfSetWindowMs == 500
\* ticks after which a write is older than the window whatever the truncation
SelfTickCap == SelfSetWindowMs \div TickMs + 1
SilencePeak == 1
FloorDb == -100

None == "None"

\* an Option<T> of a number: Nil, or Some(v) with value Val(o)
Nil == << >>
Some(v) == << v >>
Val(o) == o[1]
NoInput == "NoInput"

\* the inputs that exist in the remote application and in obs_state
Targets == {"music"}
InitialVolume == [t \in Targets |-> 0 - 10]
EditVolume == 0 - 5

Min(a, b) == IF a < b THEN a ELSE b
Max(a, b) == IF a > b THEN a ELSE b

-----------------------------------------------------------------------------
(* DuckingConfig and DuckingStatus *)

DefaultConfig ==
    [enabled |-> FALSE, trigger_source |-> "", target_source |-> "",
     threshold_db |-> 0 - 40, duck_amount_db |-> 0 - 14,
     attack_ms |-> 50, hold_ms |-> 500, release_ms |-> 300]

ScenarioConfig ==
    [enabled |-> TRUE, trigger_source |-> "mic", target_source |-> "music",
     threshold_db |-> 0 - 40, duck_amount_db |-> 0 - 14,
     attack_ms |-> 50, hold_ms |-> 100, release_ms |-> 100]

Configs ==
    { DefaultConfig,
      ScenarioConfig,
      [ScenarioConfig EXCEPT !.enabled = FALSE],
      [ScenarioConfig EXCEPT !.target_source = "sfx", !.duck_amount_db = 0 - 6,
                             !.attack_ms = 0] }

DuckingStatus == {"Disabled", "Idle", "Attacking", "Ducking", "Holding", "Releasing"}

-----------------------------------------------------------------------------
(* Inputs a tick reads from its collaborators *)

\* obs_state.inputs.get(trigger_source): absent, or the input's device_id
RegistryEntries == {NoInput, "dev0", "default", ""}
\* the default input device found by enumerate_audio_devices, if any
DefaultDevices == {None, "dev0"}
\* metrics.devices[dev].peak in units of 0.0001
PeakLevels == {32, 316}
\* truncation of an elapsed time to whole milliseconds
TruncMs == {0, 1}

\* 20*log10(p) for the linear peaks used, rounded to whole dB
Log10Db(p) ==
    CASE p = 1 -> 0 - 80
      [] p = 10 -> 0 - 60
      [] p = 32 -> 0 - 50
      [] p = 100 -> 0 - 40
      [] p = 316 -> 0 - 30
      [] p = 1000 -> 0 - 20
      [] p = 10000 -> 0

\* variant: a peak of exactly 0.0001 is converted
PeakDb_ge(peak) == IF peak >= SilencePeak THEN Log10Db(peak) ELSE FloorDb

PeakDb(peak) == IF peak > SilencePeak THEN Log10Db(peak) ELSE FloorDb

VoiceActive(peak, c) == PeakDb(peak) > c.threshold_db

ConfigInactive(c) ==
    ~c.enabled \/ c.trigger_source = "" \/ c.target_source = ""

resolve_default_input_device(dflt) == dflt

ResolveTrigger(reg, dflt) ==
    IF reg = NoInput THEN None
    ELSE IF reg = "default" \/ reg = "" THEN resolve_default_input_device(dflt)
    ELSE reg

ElapsedMs(ticks, trunc) == IF ticks = 0 THEN 0 ELSE ticks * TickMs - trunc

-----------------------------------------------------------------------------
(* Remote volume control as the loop uses it *)

NoCmd == [kind |-> "none"]
NoRead == [via |-> "none"]
DuckCmd(target, db) == [kind |-> "duck", target |-> target, db |-> db]
RestoreCmd(target, db) == [kind |-> "restore", target |-> target, db |-> db]

\* state.inputs.get(target).map(|i| i.volume_db)
MirrorVolume(target) == IF target \in Targets THEN Some(obs_volume[target]) ELSE Nil

\* the answer to GetInputVolume: an error for an input that does not exist
RemoteVolume(target) == IF target \in Targets THEN Some(remote_volume[target]) ELSE Nil

\* get_current_volume serves the read from obs_state while the last own write
\* is younger than 500 ms
\* variant: the window is never closed
UseLocalVolume_always(since) == since # Nil

UseLocalVolume(since) == since # Nil /\ Val(since) < SelfSetWindowMs

\* since: Nil or Some of the ms elapsed since last_self_set; okGet: the outcome of
\* the GetInputVolume request, if one is sent
get_current_volume(target, since, okGet) ==
    IF UseLocalVolume(since)
    THEN [via |-> "local", value |-> MirrorVolume(target)]
    ELSE [via |-> "remote",
          value |-> IF okGet THEN RemoteVolume(target) ELSE Nil]

\* variant: the duck amount is applied with the wrong sign
DuckedVolume_sign(orig, c) == Val(orig) - c.duck_amount_db

DuckedVolume(orig, c) == Val(orig) + c.duck_amount_db

RestoredVolume(orig, current) == Val(orig)

-----------------------------------------------------------------------------
(* One iteration of the loop: the result of each branch is a record        *)
(*   status: the new status          orig:  the new original_volume_db     *)
(*   reset:  state_entered_at is set cmd:   the volume command issued      *)
(*   read:   get_current_volume is called                                  *)

Result(st, orig, reset, cmd, read) ==
    [status |-> st, orig |-> orig, reset |-> reset, cmd |-> cmd, read |-> read]

\* variant: the forced transition to Disabled drops the cache without restoring
DisableBranch_norestore(st, orig, c) ==
    IF st # "Disabled"
    THEN Result("Disabled", Nil, FALSE, NoCmd, FALSE)
    ELSE Result(st, orig, FALSE, NoCmd, FALSE)

\* enabled = false or a source name is empty
DisableBranch(st, orig, c) ==
    IF st # "Disabled"
    THEN Result("Disabled", Nil, FALSE,
                IF orig # Nil
                THEN RestoreCmd(c.target_source,
                                RestoredVolume(orig, remote_volume))
                ELSE NoCmd,
                FALSE)
    ELSE Result(st, orig, FALSE, NoCmd, FALSE)

\* variant: an unresolved trigger leaves the status as it is
UnresolvedBranch_keep(st, orig) == Result(st, orig, FALSE, NoCmd, FALSE)

\* the trigger source resolves to no device
UnresolvedBranch(st, orig) == Result("Idle", orig, FALSE, NoCmd, FALSE)

DisabledArm(orig) == Result("Idle", orig, TRUE, NoCmd, FALSE)

\* variant: the trigger test is inverted
IdleArm_inverted(active, orig, vol) ==
    IF ~active
    THEN Result("Attacking", IF orig = Nil THEN vol ELSE orig, TRUE, NoCmd, orig = Nil)
    ELSE Result("Idle", orig, FALSE, NoCmd, FALSE)

IdleArm(active, orig, vol) ==
    IF active
    THEN IF orig = Nil
         THEN Result("Attacking", vol, TRUE, NoCmd, TRUE)
         ELSE Result("Attacking", orig, TRUE, NoCmd, FALSE)
    ELSE Result("Idle", orig, FALSE, NoCmd, FALSE)

\* variant: an aborted attack keeps the cached volume
AttackingArm_keep(active, el, orig, c) ==
    IF el >= c.attack_ms
    THEN Result("Ducking", orig, TRUE,
                IF orig # Nil
                THEN DuckCmd(c.target_source, DuckedVolume(orig, c))
                ELSE NoCmd,
                FALSE)
    ELSE IF ~active
    THEN Result("Idle", orig, TRUE, NoCmd, FALSE)
    ELSE Result("Attacking", orig, FALSE, NoCmd, FALSE)

AttackingArm(active, el, orig, c) ==
    IF el >= c.attack_ms
    THEN Result("Ducking", orig, TRUE,
                IF orig # Nil
                THEN DuckCmd(c.target_source, DuckedVolume(orig, c))
                ELSE NoCmd,
                FALSE)
    ELSE IF ~active
    THEN Result("Idle", Nil, TRUE, NoCmd, FALSE)
    ELSE Result("Attacking", orig, FALSE, NoCmd, FALSE)

DuckingArm(active, orig) ==
    IF active
    THEN Result("Ducking", orig, FALSE, NoCmd, FALSE)
    ELSE Result("Holding", orig, TRUE, NoCmd, FALSE)

\* variant: a re-trigger during the hold starts a new attack
HoldingArm_reattack(active, el, orig, c) ==
    IF active
    THEN Result("Attacking", orig, TRUE, NoCmd, FALSE)
    ELSE IF el >= c.hold_ms
    THEN Result("Releasing", orig, TRUE, NoCmd, FALSE)
    ELSE Result("Holding", orig, FALSE, NoCmd, FALSE)

HoldingArm(active, el, orig, c) ==
    IF active
    THEN Result("Ducking", orig, TRUE, NoCmd, FALSE)
    ELSE IF el >= c.hold_ms
    THEN Result("Releasing", orig, TRUE, NoCmd, FALSE)
    ELSE Result("Holding", orig, FALSE, NoCmd, FALSE)

\* variant: the release completes without restoring the target
ReleasingArm_norestore(active, el, orig, c) ==
    IF active
    THEN Result("Ducking", orig, TRUE, NoCmd, FALSE)
    ELSE IF el >= c.release_ms
    THEN Result("Idle", Nil, TRUE, NoCmd, FALSE)
    ELSE Result("Releasing", orig, FALSE, NoCmd, FALSE)

ReleasingArm(active, el, orig, c) ==
    IF active
    THEN Result("Ducking", orig, TRUE, NoCmd, FALSE)
    ELSE IF el >= c.release_ms
    THEN Result("Idle", Nil, TRUE,
                IF orig # Nil
                THEN RestoreCmd(c.target_source,
                                RestoredVolume(orig, remote_volume))
                ELSE NoCmd,
                FALSE)
    ELSE Result("Releasing", orig, FALSE, NoCmd, FALSE)

\* the match on status
Transition(st, c, active, el, orig, vol) ==
    CASE st = "Disabled" -> DisabledArm(orig)
      [] st = "Idle" -> IdleArm(active, orig, vol)
      [] st = "Attacking" -> AttackingArm(active, el, orig, c)
      [] st = "Ducking" -> DuckingArm(active, orig)
      [] st = "Holding" -> HoldingArm(active, el, orig, c)
      [] st = "Releasing" -> ReleasingArm(active, el, orig, c)

\* variant: the status is emitted on every tick
emit_status_always(old, new) == new

\* the status emitted by a tick that started in old and ends in new: emit_status
\* is called only where the status is assigned a different value
emit_status(old, new) == IF new # old THEN new ELSE None

\* SetInputVolume succeeds when the request gets through and the input exists
SetSucceeds(cmd, okSet) == okSet /\ cmd.target \in Targets

VolumeEvent(name, db) == [inputName |-> name, inputVolumeDb |-> db]

-----------------------------------------------------------------------------
(* The scenario of the specification: trigger inactive for one tick,       *)
(* active for three ticks, inactive ever after, under ScenarioConfig with  *)
(* a resolving trigger and succeeding requests.                            *)

ScenarioActive(k) == k \in 2..4

ScenarioExpected ==
    << "Idle", "Attacking", "Ducking", "Holding", "Releasing", "Idle" >>

\* the k-th scenario tick is as the scenario prescribes
ScenarioTick(k, c, trig, active, okGet, okSet) ==
    /\ c = ScenarioConfig
    /\ trig # None
    /\ active = ScenarioActive(k)
    /\ okGet
    /\ okSet

\* a controller that never issued a command, idle with an empty cache
ScenarioStart == status = "Idle" /\ original_volume_db = Nil /\ last_self_set = Nil

-----------------------------------------------------------------------------
(* Actions *)

\* what one tick can observe: the resolution of the trigger source, whether
\* the trigger level is above the threshold, the truncation of the two elapsed
\* times and the outcome of the requests it may send (nothing is drawn for a
\* comparison or a request the branch taken does not make)
Resolutions(c) ==
    IF ConfigInactive(c) THEN {None}
    ELSE {ResolveTrigger(r, d) : r \in RegistryEntries, d \in DefaultDevices}

Activities(c) == {VoiceActive(p, c) : p \in PeakLevels}

TimedStatus == {"Attacking", "Holding", "Releasing"}

Tick ==
    LET c == config
        off == ConfigInactive(c)
        mayRead == ~off /\ status = "Idle" /\ original_volume_db = Nil
        mayWrite == original_volume_db # Nil
                    /\ (off \/ status \in {"Attacking", "Releasing"})
    IN
    \E trig \in Resolutions(c), level \in Activities(c),
       t1 \in (IF ~off /\ status \in TimedStatus THEN TruncMs ELSE {0}),
       t2 \in (IF mayRead /\ last_self_set # Nil THEN TruncMs ELSE {0}),
       okGet \in (IF mayRead THEN BOOLEAN ELSE {TRUE}),
       okSet \in (IF mayWrite THEN BOOLEAN ELSE {TRUE}) :
      LET reached == ~off /\ trig # None
          active == reached /\ level
          el == IF reached /\ status \in TimedStatus
                THEN ElapsedMs(state_ticks, t1) ELSE 0
          since == IF last_self_set = Nil THEN Nil
                   ELSE Some(ElapsedMs(Val(last_self_set), t2))
          rd == get_current_volume(c.target_source, since, okGet)
          out == IF off THEN DisableBranch(status, original_volume_db, c)
                 ELSE IF trig = None THEN UnresolvedBranch(status, original_volume_db)
                 ELSE Transition(status, c, active, el, original_volume_db, rd.value)
          wrote == out.cmd # NoCmd
          done == wrote /\ SetSucceeds(out.cmd, okSet)
          k == scn + 1
          conforms == ScenarioTick(k, c, trig, active, okGet, okSet)
      IN  /\ Len(sent) + (IF wrote THEN 1 ELSE 0) <= MaxCmds
          /\ status' = out.status
          /\ original_volume_db' = out.orig
          /\ state_ticks' = IF out.reset THEN 1 ELSE Min(state_ticks + 1, StateTickCap)
          /\ last_self_set' = IF wrote THEN Some(1)
                              ELSE IF last_self_set = Nil THEN Nil
                              ELSE Some(Min(Val(last_self_set) + 1, SelfTickCap))
          /\ trigger_device_id' = trig
          /\ voice_active' = active
          /\ elapsed' = el
          /\ sent' = IF wrote THEN Append(sent, out.cmd @@ [ok |-> done]) ELSE sent
          /\ remote_volume' = IF done
                              THEN [remote_volume EXCEPT ![out.cmd.target] = out.cmd.db]
                              ELSE remote_volume
          /\ events' = IF done
                       THEN Append(events, VolumeEvent(out.cmd.target, out.cmd.db))
                       ELSE events
          /\ notified' = emit_status(status, out.status)
          /\ last_emitted' = IF notified' # None THEN notified' ELSE last_emitted
          /\ volume_read' = IF out.read THEN [via |-> rd.via, since |-> since]
                             ELSE NoRead
          /\ scn' = IF scn = -1 THEN -1
                    ELSE IF scn = 0
                    THEN (IF ScenarioStart /\ conforms THEN 1
                          ELSE IF ScenarioStart \/ status = "Disabled" THEN 0 ELSE -1)
                    ELSE IF conforms THEN Min(scn + 1, ScnEnd) ELSE -1
          /\ scnTrace' = IF scn' < 1 THEN << >>
                         ELSE LET base == IF scn = 0 THEN << status >> ELSE scnTrace
                              IN  IF out.status # status /\ Len(base) < 8
                                  THEN Append(base, out.status) ELSE base
          /\ UNCHANGED << config, obs_volume, edits >>
          /\ UNCHANGED << capture_vars, monitor_vars, analysis_vars, trigger_level >>

\* set_ducking_config replaces the whole configuration
set_ducking_config ==
    \E c \in Configs :
      /\ c # config
      /\ config' = c
      /\ UNCHANGED << status, original_volume_db, state_ticks, last_self_set,
                      trigger_device_id, voice_active, elapsed, obs_volume,
                      remote_volume, events, sent, notified, last_emitted,
                      volume_read, edits, scn, scnTrace >>
      /\ UNCHANGED << capture_vars, monitor_vars, analysis_vars, trigger_level >>

\* handle_event, InputVolumeChanged: the reader task stores the volume carried
\* by the oldest event in flight into obs_state
handle_event ==
    /\ events # << >>
    /\ obs_volume' = [obs_volume EXCEPT ![Head(events).inputName] =
                                               Head(events).inputVolumeDb]
    /\ events' = Tail(events)
    /\ UNCHANGED << config, status, original_volume_db, state_ticks, last_self_set,
                    trigger_device_id, voice_active, elapsed, remote_volume, sent,
                    notified, last_emitted, volume_read, edits, scn, scnTrace >>
    /\ UNCHANGED << capture_vars, monitor_vars, analysis_vars, trigger_level >>

\* somebody else changes a target's volume inside the remote application,
\* which reports it with an InputVolumeChanged event
ExternalVolumeEdit ==
    \E t \in Targets :
      /\ edits < MaxEdits
      /\ remote_volume[t] # EditVolume
      /\ remote_volume' = [remote_volume EXCEPT ![t] = EditVolume]
      /\ events' = Append(events, VolumeEvent(t, EditVolume))
      /\ edits' = edits + 1
      /\ UNCHANGED << config, status, original_volume_db, state_ticks, last_self_set,
                      trigger_device_id, voice_active, elapsed, obs_volume, sent,
                      notified, last_emitted, volume_read, scn, scnTrace >>
      /\ UNCHANGED << capture_vars, monitor_vars, analysis_vars, trigger_level >>

DuckingInit ==
    /\ config = DefaultConfig
    /\ status = "Disabled"
    /\ original_volume_db = Nil
    /\ state_ticks = 0
    /\ last_self_set = Nil
    /\ trigger_device_id = None
    /\ voice_active = FALSE
    /\ elapsed = 0
    /\ obs_volume = InitialVolume
    /\ remote_volume = InitialVolume
    /\ events = << >>
    /\ sent = << >>
    /\ notified = None
    /\ last_emitted = "Disabled"
    /\ volume_read = NoRead
    /\ edits = 0
    /\ scn = 0
    /\ scnTrace = << >>

-----------------------------------------------------------------------------
(* Capture owners: state, commands and sample extraction *)

Owners == {"spectrum", "narration", "pad"}

\* start_spectrum keeps the channel and the thread of an earlier start;
\* start_narration_capture and start_pad_capture make a new channel and spawn
\* a new thread on every call
ReusesThread(o) == o = "spectrum"

\* the capture loops of narration and pad append zeros for a silent packet
AddsSilence(o) == o # "spectrum"

\* narration and pad write the captured samples to a WAV file when the
\* capture loop is left
WritesWav(o) == o # "spectrum"

Threads == 1..MaxCalls
Devices == {"mic"}
\* wBitsPerSample and nChannels of the mix format of an endpoint
BitDepths == {8, 16}
ChannelCounts == {2}
\* num_frames of a packet
FrameCounts == {0, 2}

StartCmd(dev) == [kind |-> "Start", device |-> dev]
StopCmd == [kind |-> "Stop"]

\* a thread that has no session
Waiting(pc) ==
    [pc |-> pc, device |-> None, bits |-> 0, channels |-> 0, frames |-> 0,
     samples |-> << >>, failed |-> FALSE]

\* a thread whose endpoint is open and started
Active(t) == thread[t].pc = "capture"

Spawned == {t \in Threads : thread[t].pc # "unborn"}

\* the Sender of a channel is held by control_tx only
SenderAlive(t) == capture_state.control_tx = t

\* tx.send: the command is lost when the receiving thread is gone
Send(ch, t, cmd) ==
    IF thread[t].pc = "exited" THEN ch ELSE [ch EXCEPT ![t] = Append(@, cmd)]

\* calls: the calls made so far; stops: the stop calls made since the last start
IdleCaller == [pc |-> "idle", device |-> None, calls |-> 0, stops |-> 0]

\* a sample: the raw value read from the buffer and what it is divided by
ZeroSample == << 0, 1 >>
I16Scale == 32768
I24Scale == 8388608

\* the raw contents of the k-th packet: the value at sample position i
Raw(k, i) == 10 * k + i

\* variant: an unsupported format yields no samples
extract_samples_none(k, frame_count, channels, bits_per_sample, block_align) ==
    LET total_samples == frame_count * channels
    IN  IF bits_per_sample \in {16, 24, 32}
        THEN [i \in 1..total_samples |-> << Raw(k, i - 1), 1 >>]
        ELSE << >>

\* extract_samples on the buffer of the k-th packet
extract_samples(k, frame_count, channels, bits_per_sample, block_align) ==
    LET total_samples == frame_count * channels
    IN  CASE bits_per_sample = 32 ->
               [i \in 1..total_samples |-> << Raw(k, i - 1), 1 >>]
          [] bits_per_sample = 16 ->
               [i \in 1..total_samples |-> << Raw(k, i - 1), I16Scale >>]
          [] bits_per_sample = 24 ->
               [i \in 1..total_samples |->
                   LET frame == (i - 1) \div channels
                       ch == (i - 1) % channels
                       offset == frame * block_align + ch * 3
                   IN  << Raw(k, offset \div 3), I24Scale >>]
          [] OTHER -> [i \in 1..total_samples |-> ZeroSample]

\* the arguments of a call of extract_samples on the buffer of packet k
ExtractArgs(k, frame_count, channels, bits_per_sample, block_align) ==
    [k |-> k, frame_count |-> frame_count, channels |-> channels,
     bits_per_sample |-> bits_per_sample, block_align |-> block_align,
     out |-> Nil]

NoExtraction == ExtractArgs(0, 0, 0, 0, 0)

\* the formats and buffers extract_samples is called on: every supported bit
\* depth and two unsupported ones, block_align as the format implies it
SampleFormats == {8, 16, 20, 24, 32, 64}
ExtractInputs ==
    {ExtractArgs(k, f, c, b, c * (b \div 8)) :
        k \in 1..MaxPackets, f \in 0..MaxFrames, c \in 1..MaxChannels,
        b \in SampleFormats}

\* what the capture loop hands to its consumer for one packet
Consumed(o, k, frame_count, silent, session) ==
    IF ~silent /\ frame_count > 0
    THEN extract_samples(k, frame_count, session.channels, session.bits,
                         session.channels * (session.bits \div 8))
    ELSE IF silent /\ frame_count > 0 /\ AddsSilence(o)
    THEN [i \in 1..(frame_count * session.channels) |-> ZeroSample]
    ELSE << >>

\* the factor of write_wav, and the 16-bit value it stores for one sample:
\* the sample clamped to [-1, 1], times 32767, cut towards zero
PcmScale == 32767
PcmSample(s) ==
    LET raw == s[1]
        scale == s[2]
    IN  IF raw >= scale THEN PcmScale
        ELSE IF raw <= -scale THEN -PcmScale
        ELSE IF raw >= 0 THEN (raw * PcmScale) \div scale
        ELSE -(((-raw) * PcmScale) \div scale)

\* the data chunk write_wav builds from the samples of a session
write_wav(samples) == [i \in 1..Len(samples) |-> PcmSample(samples[i])]

-----------------------------------------------------------------------------
(* Capture owners: the commands *)

\* the rest of a start once the running session, if any, was told to stop:
\* the Start command goes to the existing thread, or to a new one
StartSession(dev) ==
    IF ReusesThread(owner) /\ capture_state.control_tx # 0
    THEN /\ channel' = Send(channel, capture_state.control_tx, StartCmd(dev))
         /\ capture_state' = [capture_state EXCEPT !.is_running = TRUE]
         /\ UNCHANGED thread
    ELSE LET new == Cardinality(Spawned) + 1
         IN  /\ channel' = [channel EXCEPT ![new] = << StartCmd(dev) >>]
             /\ capture_state' = [control_tx |-> new, is_running |-> TRUE]
             /\ thread' = [thread EXCEPT ![new] = Waiting("init")]

\* a session counts as running: start sends Stop and sleeps before going on
MustStopFirst ==
    /\ capture_state.is_running
    /\ ReusesThread(owner) => capture_state.control_tx # 0

\* start_spectrum, start_narration_capture, start_pad_capture up to the sleep
\* (calls that fail before they take the state lock change nothing)
StartCapture(o) ==
    /\ owner = o
    /\ caller.pc = "idle"
    /\ caller.calls < MaxCalls
    /\ \E dev \in Devices :
         IF MustStopFirst
         THEN /\ channel' = IF capture_state.control_tx # 0
                            THEN Send(channel, capture_state.control_tx, StopCmd)
                            ELSE channel
              /\ caller' = [pc |-> "sleeping", device |-> dev,
                            calls |-> caller.calls + 1, stops |-> 0]
              /\ UNCHANGED << capture_state, thread >>
         ELSE /\ StartSession(dev)
              /\ caller' = [caller EXCEPT !.calls = @ + 1, !.stops = 0]
    /\ UNCHANGED << owner, output, packets, extraction >>
    /\ UNCHANGED << ducking_vars, monitor_vars, analysis_vars, trigger_level >>

start_spectrum == StartCapture("spectrum")
start_narration_capture == StartCapture("narration")
start_pad_capture == StartCapture("pad")

\* the start that slept goes on
start_resume ==
    /\ caller.pc = "sleeping"
    /\ StartSession(caller.device)
    /\ caller' = [caller EXCEPT !.pc = "idle", !.device = None]
    /\ UNCHANGED << owner, output, packets, extraction >>
    /\ UNCHANGED << ducking_vars, monitor_vars, analysis_vars, trigger_level >>

\* variant: stop only clears the flag
StopSends_never == FALSE

StopSends == capture_state.control_tx # 0

\* stop_spectrum, stop_narration_capture, stop_pad_capture
StopCapture(o) ==
    /\ owner = o
    /\ caller.pc = "idle"
    /\ caller.calls < MaxCalls
    /\ channel' = IF StopSends
                  THEN Send(channel, capture_state.control_tx, StopCmd)
                  ELSE channel
    /\ capture_state' = [capture_state EXCEPT !.is_running = FALSE]
    /\ caller' = [caller EXCEPT !.calls = @ + 1, !.stops = @ + 1]
    /\ UNCHANGED << owner, thread, output, packets, extraction >>
    /\ UNCHANGED << ducking_vars, monitor_vars, analysis_vars, trigger_level >>

stop_spectrum == StopCapture("spectrum")
stop_narration_capture == StopCapture("narration")
stop_pad_capture == StopCapture("pad")

-----------------------------------------------------------------------------
(* Capture owners: the capture thread *)

\* capture_thread before its loop: COM initialisation and the enumerator
thread_init ==
    \E t \in Threads, ok \in BOOLEAN :
      /\ thread[t].pc = "init"
      /\ thread' = [thread EXCEPT ![t] = Waiting(IF ok THEN "recv" ELSE "exited")]
      /\ channel' = IF ok THEN channel ELSE [channel EXCEPT ![t] = << >>]
      /\ UNCHANGED << owner, capture_state, caller, output, packets, extraction >>
      /\ UNCHANGED << ducking_vars, monitor_vars, analysis_vars, trigger_level >>

\* variant: a failure to set the endpoint up ends the thread
AfterOpenFailure_exit == "exited"

\* where the thread goes when run_capture returns an error from the set-up
AfterOpenFailure == "recv"

\* the loop of capture_thread: rx.recv(), and for a Start the set-up of
\* run_capture (device, activation, format, Initialize, service, Start)
recv_command ==
    \E t \in Threads :
      /\ thread[t].pc = "recv"
      /\ IF channel[t] # << >>
         THEN LET cmd == Head(channel[t])
              IN  /\ channel' = [channel EXCEPT ![t] = Tail(@)]
                  /\ IF cmd.kind = "Stop"
                     THEN thread' = thread
                     ELSE \/ \E b \in BitDepths, c \in ChannelCounts :
                               thread' = [thread EXCEPT ![t] =
                                  [pc |-> "capture", device |-> cmd.device,
                                   bits |-> b, channels |-> c, frames |-> 0,
                                   samples |-> << >>, failed |-> FALSE]]
                          \/ thread' = [thread EXCEPT ![t] =
                                           Waiting(AfterOpenFailure)]
         ELSE /\ ~SenderAlive(t)
              /\ thread' = [thread EXCEPT ![t] = Waiting("exited")]
              /\ channel' = channel
      /\ UNCHANGED << owner, capture_state, caller, output, packets, extraction >>
      /\ UNCHANGED << ducking_vars, monitor_vars, analysis_vars, trigger_level >>

\* the packets a capture loop finds waiting in one round of its packet loop
PacketKinds == {p \in [frames : FrameCounts, silent : BOOLEAN] :
                   p.frames = 0 => ~p.silent}
Batches(m) == UNION {[1..j -> PacketKinds] : j \in 0..m}

\* variant: the samples of a packet are put in front of the earlier ones
TakePacket_front(o, session, pkt, k) ==
    [session EXCEPT !.frames = @ + pkt.frames,
                    !.samples = Consumed(o, k, pkt.frames, pkt.silent, session) \o @]

\* the session after one packet (the k-th delivered) was taken, handed to the
\* consumer and released
TakePacket(o, session, pkt, k) ==
    [session EXCEPT !.frames = @ + pkt.frames,
                    !.samples = @ \o Consumed(o, k, pkt.frames, pkt.silent, session)]

RECURSIVE Feed(_, _, _, _)
Feed(o, session, pkts, k) ==
    IF pkts = << >> THEN session
    ELSE Feed(o, TakePacket(o, session, Head(pkts), k), Tail(pkts), k + 1)

\* the session after the packet loop: it is left when no packet is waiting
\* and when GetNextPacketSize or GetBuffer fails (err), and in both cases the
\* capture loop goes on; failed records how the packet loop was left last
AfterPackets(session, err) == [session EXCEPT !.failed = err]

\* variant: only a hung-up channel ends the session
EndsSession_hangup(t) == ~SenderAlive(t)

\* rx.try_recv() at the head of a round: Stop, Start or Disconnected
EndsSession(t) == channel[t] # << >> \/ ~SenderAlive(t)

\* one round of the capture loop, after its sleep. The command check: any
\* command, or a disconnected channel, ends the session: the endpoint is
\* stopped, narration and pad write the samples to the WAV file, and
\* run_capture returns. With no command, the packet loop takes the packets
\* that are waiting.
capture_loop ==
    \E t \in Threads :
      /\ thread[t].pc = "capture"
      /\ IF EndsSession(t)
         THEN /\ thread' = [thread EXCEPT ![t] = Waiting("recv")]
              /\ channel' = IF channel[t] # << >>
                            THEN [channel EXCEPT ![t] = Tail(@)] ELSE channel
              /\ \E okWrite \in (IF WritesWav(owner) THEN BOOLEAN ELSE {FALSE}) :
                   output' = IF okWrite THEN Some(write_wav(thread[t].samples))
                             ELSE output
              /\ UNCHANGED packets
         ELSE /\ \E pkts \in Batches(MaxPackets - packets), err \in BOOLEAN :
                   /\ thread' = [thread EXCEPT ![t] =
                          AfterPackets(Feed(owner, @, pkts, packets + 1), err)]
                   /\ packets' = packets + Len(pkts)
              /\ UNCHANGED << channel, output >>
      /\ UNCHANGED << owner, capture_state, caller, extraction >>
      /\ UNCHANGED << ducking_vars, monitor_vars, analysis_vars, trigger_level >>

\* a call of extract_samples
extract ==
    /\ extraction.out = Nil
    /\ extraction.k > 0
    /\ extraction' =
          [extraction EXCEPT !.out =
              Some(extract_samples(extraction.k, extraction.frame_count,
                                   extraction.channels, extraction.bits_per_sample,
                                   extraction.block_align))]
    /\ UNCHANGED << owner, capture_state, caller, channel, thread, output, packets >>
    /\ UNCHANGED << ducking_vars, monitor_vars, analysis_vars, trigger_level >>

-----------------------------------------------------------------------------
(* Peak-meter polling (audio_monitor.rs): the polling task, the shared      *)
(* metrics snapshot and its readers. Peaks and RMS values are counted in    *)
(* units of 0.0001; a mean and a square root are cut to whole units.        *)

RMS_WINDOW == 5
NOISE_FLOOR_WINDOW == 50
\* rms > 0.0001, peak > 0.001, peak >= 0.95
NoiseGate == 1
ActivityPeak == 10
ClippingPeak == 9500

\* the endpoints, in the order the enumeration visits them
EndpointIds == << "dev0", "dev1" >>
Endpoints == {EndpointIds[i] : i \in 1..Len(EndpointIds)}

\* what querying one endpoint gives in a pass: it is not among the active
\* endpoints, or Item, GetId or Activate fails, or its peak is read (a failed
\* GetPeakValue reads as 0)
Absent == [kind |-> "absent", peak |-> 0]
QueryError == [kind |-> "error", peak |-> 0]
PeakOf(p) == [kind |-> "peak", peak |-> p]
EndpointPeaks == [dev0 |-> {0, 8, 20}, dev1 |-> {20}]
EndpointOutcomes(e) == {Absent, QueryError} \cup {PeakOf(p) : p \in EndpointPeaks[e]}

\* a pass: it fails as a whole (COM, the enumerator, the blocking task), or it
\* queries every endpoint
FailedPass == [ok |-> FALSE, query |-> [e \in Endpoints |-> Absent]]
Queries ==
    {q \in [Endpoints -> UNION {EndpointOutcomes(e) : e \in Endpoints}] :
        \A e \in Endpoints : q[e] \in EndpointOutcomes(e)}
Passes == {FailedPass} \cup {[ok |-> TRUE, query |-> q] : q \in Queries}

\* poll_all_peak_meters: the levels of the endpoints whose query succeeded
RECURSIVE LevelsFrom(_, _)
LevelsFrom(query, i) ==
    IF i > Len(EndpointIds) THEN << >>
    ELSE LET id == EndpointIds[i]
         IN  (IF query[id].kind = "peak"
              THEN << [device_id |-> id, peak |-> query[id].peak] >>
              ELSE << >>) \o LevelsFrom(query, i + 1)

\* variant: a failing endpoint ends the enumeration
RECURSIVE LevelsUntilError(_, _)
LevelsUntilError(query, i) ==
    IF i > Len(EndpointIds) THEN << >>
    ELSE LET id == EndpointIds[i]
         IN  IF query[id].kind = "error" THEN << >>
             ELSE (IF query[id].kind = "peak"
                   THEN << [device_id |-> id, peak |-> query[id].peak] >>
                   ELSE << >>) \o LevelsUntilError(query, i + 1)

poll_all_peak_meters_stop(pass) == LevelsUntilError(pass.query, 1)

poll_all_peak_meters(pass) == LevelsFrom(pass.query, 1)

\* maps keyed by device id
EmptyMap == [id \in {} |-> 0]
Insert(m, k, v) == [id \in DOMAIN m \cup {k} |-> IF id = k THEN v ELSE m[id]]
Entry(m, k) == IF k \in DOMAIN m THEN m[k] ELSE << >>

RECURSIVE SumSq(_)
SumSq(ring) == IF ring = << >> THEN 0 ELSE Head(ring) * Head(ring) + SumSq(Tail(ring))

RECURSIVE MaxOf(_)
MaxOf(ring) ==
    IF ring = << >> THEN 0
    ELSE LET m == MaxOf(Tail(ring)) IN IF Head(ring) > m THEN Head(ring) ELSE m

RECURSIVE MinOf(_)
MinOf(ring) ==
    IF Len(ring) = 1 THEN Head(ring) ELSE Min(Head(ring), MinOf(Tail(ring)))

\* the whole part of the square root of n, which is at most hi * hi
Isqrt(n, hi) == CHOOSE r \in 0..hi : r * r <= n /\ (r + 1) * (r + 1) > n

\* variant: the mean is taken over the full window length
Rms_full(ring) ==
    IF ring = << >> THEN 0 ELSE Isqrt(SumSq(ring) \div RMS_WINDOW, MaxOf(ring))

\* sqrt(sum of squares / len)
Rms(ring) ==
    IF ring = << >> THEN 0 ELSE Isqrt(SumSq(ring) \div Len(ring), MaxOf(ring))

\* push and drop the oldest beyond the window
Push(ring, v, window) ==
    LET r == Append(ring, v) IN IF Len(r) > window THEN Tail(r) ELSE r

\* variant: every rms enters the history
NoiseHistory_all(nf_history, rms) == Push(nf_history, rms, NOISE_FLOOR_WINDOW)

NoiseHistory(nf_history, rms) ==
    IF rms > NoiseGate THEN Push(nf_history, rms, NOISE_FLOOR_WINDOW) ELSE nf_history

NoiseFloor(nf_history) == IF nf_history = << >> THEN 0 ELSE MinOf(nf_history)

\* the body of the loop over the levels of a pass, for one level
Measure(st, level) ==
    LET ring == Push(Entry(st.ring_buffers, level.device_id), level.peak, RMS_WINDOW)
        rms == Rms(ring)
        nf_history == NoiseHistory(Entry(st.noise_floor_history, level.device_id), rms)
    IN  [ring_buffers |-> Insert(st.ring_buffers, level.device_id, ring),
         noise_floor_history |->
             Insert(st.noise_floor_history, level.device_id, nf_history),
         metrics_snapshot |->
             Insert(st.metrics_snapshot, level.device_id,
                    [peak |-> level.peak, rms |-> rms,
                     noise_floor |-> NoiseFloor(nf_history),
                     clipping |-> level.peak >= ClippingPeak])]

RECURSIVE MeasureAll(_, _)
MeasureAll(st, levels) ==
    IF levels = << >> THEN st
    ELSE MeasureAll(Measure(st, Head(levels)), Tail(levels))

\* variant: the devices of the pass are added to the snapshot
Publish_merge(old, snapshot) ==
    [id \in DOMAIN old \cup DOMAIN snapshot |->
        IF id \in DOMAIN snapshot THEN snapshot[id] ELSE old[id]]

\* *m = metrics_snapshot
Publish(old, snapshot) == snapshot

\* variant: any level is reported
Activity_always(levels) == levels # << >>

\* levels.iter().any(|l| l.peak > 0.001)
Activity(levels) == \E i \in 1..Len(levels) : levels[i].peak > ActivityPeak

\* every peak a device had in the passes so far, oldest first
RECURSIVE Seen(_, _)
Seen(history, levels) ==
    IF levels = << >> THEN history
    ELSE Seen(Insert(history, Head(levels).device_id,
                     Append(Entry(history, Head(levels).device_id), Head(levels).peak)),
              Tail(levels))

\* the passes the model lets pass number n + 1 be: any pass while n is below
\* FreePasses, and a repetition of the pass before it from then on
NextPasses == IF poller.passes < FreePasses THEN Passes ELSE {poller.pass}

\* variant: a failed pass clears the windows
AfterFailedPass_clear(p) ==
    [p EXCEPT !.ring_buffers = EmptyMap, !.noise_floor_history = EmptyMap]

\* the task after a pass that failed as a whole
AfterFailedPass(p) == p

\* one iteration of the polling loop up to the snapshot of the pass: the tick,
\* poll_all_peak_meters in the blocking pool, the windows and the metrics
poll_pass ==
    /\ poller.pc = "tick"
    /\ poller.passes < MaxPasses
    /\ \E pass \in NextPasses :
         LET p == [poller EXCEPT !.passes = @ + 1, !.pass = pass]
         IN  IF pass.ok
             THEN LET levels == poll_all_peak_meters(pass)
                      st == MeasureAll([ring_buffers |-> poller.ring_buffers,
                                        noise_floor_history |-> poller.noise_floor_history,
                                        metrics_snapshot |-> EmptyMap], levels)
                  IN  poller' = [p EXCEPT !.pc = "publish",
                                          !.levels = levels,
                                          !.history = Seen(@, levels),
                                          !.ring_buffers = st.ring_buffers,
                                          !.noise_floor_history = st.noise_floor_history,
                                          !.metrics_snapshot = st.metrics_snapshot]
             ELSE poller' = AfterFailedPass(p)
    /\ peak_levels' = Nil
    /\ UNCHANGED << audio_metrics, metrics_read >>
    /\ UNCHANGED << ducking_vars, capture_vars, analysis_vars, trigger_level >>

\* the snapshot is replaced under the write lock
publish ==
    /\ poller.pc = "publish"
    /\ audio_metrics' = Publish(audio_metrics, poller.metrics_snapshot)
    /\ poller' = [poller EXCEPT !.pc = "emit"]
    /\ UNCHANGED << peak_levels, metrics_read >>
    /\ UNCHANGED << ducking_vars, capture_vars, analysis_vars, trigger_level >>

\* the peak-levels notification, and the end of the iteration
emit_peak_levels ==
    /\ poller.pc = "emit"
    /\ peak_levels' = IF Activity(poller.levels) THEN Some(poller.levels) ELSE Nil
    /\ poller' = [poller EXCEPT !.pc = "tick"]
    /\ UNCHANGED << audio_metrics, metrics_read >>
    /\ UNCHANGED << ducking_vars, capture_vars, analysis_vars, trigger_level >>

\* a reader takes the read lock: get_audio_metrics, or the ducking tick
get_audio_metrics ==
    /\ metrics_read # Some(audio_metrics)
    /\ metrics_read' = Some(audio_metrics)
    /\ UNCHANGED << audio_metrics, poller, peak_levels >>
    /\ UNCHANGED << ducking_vars, capture_vars, analysis_vars, trigger_level >>

\* the task as spawned, and the metrics as lib.rs manages them
MonitorIdle ==
    /\ audio_metrics = EmptyMap
    /\ poller = [pc |-> "tick", passes |-> 0, pass |-> FailedPass,
                 levels |-> << >>, metrics_snapshot |-> EmptyMap,
                 ring_buffers |-> EmptyMap, noise_floor_history |-> EmptyMap,
                 history |-> EmptyMap]
    /\ peak_levels = Nil
    /\ metrics_read = Nil

-----------------------------------------------------------------------------
(* Spectrum analysis (run_capture of spectrum.rs): the bins of a frame.     *)
(* Decibel values are counted in tenths; a magnitude is given by its        *)
(* decimal exponent.                                                        *)

FFT_SIZE == 2048
BinCount == FFT_SIZE \div 2
Bins == 1..BinCount

\* -90.0, -100.0, 0.0 dB; magnitude > 1e-10; smooth_alpha = 0.3
InitialBinDb == -900
FloorBinDb == -1000
CeilBinDb == 0
MagnitudeGateExp == -10
SmoothAlpha == 3
AlphaScale == 10

\* the magnitudes a bin can have: 1e-11, 1e-9, 1e19
MagExps == {-11, -9, 19}

\* 20 * log10(magnitude) above the gate, -100 otherwise
BinDb(exp) == IF exp > MagnitudeGateExp THEN 200 * exp ELSE FloorBinDb

\* smoothed_bins[i] * (1.0 - smooth_alpha) + db * smooth_alpha
Smooth(prev, db) == (prev * (AlphaScale - SmoothAlpha) + db * SmoothAlpha) \div AlphaScale

\* variant: only the upper limit is applied
ClampBin_upper(v) == IF v > CeilBinDb THEN CeilBinDb ELSE v

\* smoothed.max(-100.0).min(0.0)
ClampBin(v) ==
    LET lifted == IF v < FloorBinDb THEN FloorBinDb ELSE v
    IN  IF lifted > CeilBinDb THEN CeilBinDb ELSE lifted

\* the spectrum of a window: odd bins of one magnitude, even bins of another
Spectrum(odd, even) == [i \in Bins |-> IF i % 2 = 1 THEN odd ELSE even]

NoFrame == [frames |-> 0, bins |-> << >>]

\* the bins of one frame: magnitude to dB, smoothing, clamping, and the emit
fft_bins ==
    /\ fft_data.frames < MaxSpectra
    /\ \E odd, even \in MagExps :
         LET magnitude == Spectrum(odd, even)
             smoothed == [i \in Bins |-> Smooth(smoothed_bins[i], BinDb(magnitude[i]))]
         IN  /\ smoothed_bins' = smoothed
             /\ fft_data' = [frames |-> fft_data.frames + 1,
                             bins |-> [i \in Bins |-> ClampBin(smoothed[i])]]
    /\ UNCHANGED analyzer
    /\ UNCHANGED << ducking_vars, capture_vars, monitor_vars, trigger_level >>

-----------------------------------------------------------------------------
(* Spectrum analysis: the ring buffer, the windows and the emit intervals.  *)
(* Time is counted in ticks of half a millisecond and saturates.            *)

TicksPerMs == 2
SleepMs == 15
FftEmitMs == 33
LufsEmitMs == 100
\* a time saturates where its comparison is decided
FftCap == FftEmitMs * TicksPerMs
LufsCap == LufsEmitMs * TicksPerMs
HopCap == 2 * FFT_SIZE

\* Duration::as_millis
AsMillis(d) == d \div TicksPerMs

Later(d, dt, cap) == Min(d + dt, cap)
LaterAge(age, dt, cap) == IF age = Nil THEN Nil ELSE Some(Later(Val(age), dt, cap))

\* num_frames of the packets of the endpoint, and what the loop spends on one
PacketFrames == {0, 512, 2048, 4096}
ComputeTicks == {0, 5}
\* what an iteration of the capture loop sleeps: 15 ms or more
SleepTicks == {SleepMs * TicksPerMs, SleepMs * TicksPerMs + 5}

\* the locals of run_capture at session start; fft_age and lufs_age are the
\* times since the latest emit, fft_gap and lufs_gap the time between the
\* latest two emits, hop the samples drained since the window emitted last
\* began and window_hop the distance between the latest two emitted windows
NewAnalyzer ==
    [ring_len |-> 0, since_fft |-> 0, since_lufs |-> 0,
     fft_age |-> Nil, lufs_age |-> Nil, fft_gap |-> Nil, lufs_gap |-> Nil,
     hop |-> Nil, window_hop |-> Nil]

Elapse(a, dt) ==
    [a EXCEPT !.since_fft = Later(@, dt, FftCap),
              !.since_lufs = Later(@, dt, LufsCap),
              !.fft_age = LaterAge(@, dt, FftCap),
              !.lufs_age = LaterAge(@, dt, LufsCap)]

\* variant: a frame is emitted for every window
FftDue_always(a) == TRUE

\* now.duration_since(last_fft_emit).as_millis() >= 33
FftDue(a) == AsMillis(a.since_fft) >= FftEmitMs

\* variant: loudness is emitted with every packet
LufsDue_always(a) == TRUE

\* now.duration_since(last_lufs_emit).as_millis() >= 100
LufsDue(a) == AsMillis(a.since_lufs) >= LufsEmitMs

\* variant: a window is removed whole
Drain_whole(a) ==
    [a EXCEPT !.ring_len = @ - FFT_SIZE,
              !.hop = IF @ = Nil THEN Nil ELSE Some(Min(Val(@) + FFT_SIZE, HopCap))]

\* ring_buffer.drain(..FFT_SIZE / 2)
Drain(a) ==
    [a EXCEPT !.ring_len = @ - FFT_SIZE \div 2,
              !.hop = IF @ = Nil THEN Nil
                      ELSE Some(Min(Val(@) + FFT_SIZE \div 2, HopCap))]

\* the emit of the frame of the oldest FFT_SIZE samples
EmitFft(a) ==
    [a EXCEPT !.since_fft = 0, !.fft_age = Some(0), !.fft_gap = a.fft_age,
              !.hop = Some(0), !.window_hop = a.hop]

EmitLufs(a) ==
    [a EXCEPT !.since_lufs = 0, !.lufs_age = Some(0), !.lufs_gap = a.lufs_age]

\* while ring_buffer.len() >= FFT_SIZE
RECURSIVE ProcessWindows(_)
ProcessWindows(a) ==
    IF a.ring_len < FFT_SIZE THEN a
    ELSE ProcessWindows(Drain(IF FftDue(a) THEN EmitFft(a) ELSE a))

\* the sleep at the head of the capture loop
analyzer_sleep ==
    /\ \E dt \in SleepTicks : analyzer' = Elapse(analyzer, dt)
    /\ UNCHANGED << smoothed_bins, fft_data >>
    /\ UNCHANGED << ducking_vars, capture_vars, monitor_vars, trigger_level >>

\* one packet: its frames are mixed to mono into the ring buffer unless it is
\* silent, every full window is processed, then loudness is emitted if due
analyze_packet ==
    /\ \E n \in PacketFrames, silent \in BOOLEAN, dt \in ComputeTicks :
         LET timed == Elapse(analyzer, dt)
             filled == [timed EXCEPT !.ring_len =
                           IF ~silent /\ n > 0 THEN @ + n ELSE @]
             windowed == ProcessWindows(filled)
         IN  analyzer' = IF LufsDue(windowed) THEN EmitLufs(windowed) ELSE windowed
    /\ UNCHANGED << smoothed_bins, fft_data >>
    /\ UNCHANGED << ducking_vars, capture_vars, monitor_vars, trigger_level >>

AnalysisIdle ==
    /\ smoothed_bins = [i \in Bins |-> InitialBinDb]
    /\ fft_data = NoFrame
    /\ analyzer = NewAnalyzer

-----------------------------------------------------------------------------
(* The trigger level of the ducking loop as a function of the peak *)

\* the peaks (units of 0.0001) and thresholds (dB) the conversion is applied to
LevelPeaks == {0 - 5, 0, 1, 10, 32, 100, 316, 1000, 10000}
LevelThresholds == {0 - 101, 0 - 100, 0 - 80, 0 - 50, 0 - 40, 0, 10}

LevelInputs ==
    {[peak |-> p, threshold_db |-> th, peak_db |-> Nil, voice_active |-> FALSE] :
        p \in LevelPeaks, th \in LevelThresholds}
\* no conversion pending
NoLevel == [peak |-> 0, threshold_db |-> 0, peak_db |-> Some(FloorDb), voice_active |-> FALSE]

\* peak_db and voice_active of a tick, for the peak read from the snapshot
evaluate_trigger ==
    /\ trigger_level.peak_db = Nil
    /\ trigger_level' = [trigger_level EXCEPT !.peak_db = Some(PeakDb(trigger_level.peak)),
                              !.voice_active = VoiceActive(trigger_level.peak, trigger_level)]
    /\ UNCHANGED << ducking_vars, capture_vars, monitor_vars, analysis_vars >>

-----------------------------------------------------------------------------
(* Specifications *)

\* the owner o as constructed: no channel, no thread, not running
CaptureIdle(o) ==
    /\ owner = o
    /\ capture_state = [control_tx |-> 0, is_running |-> FALSE]
    /\ caller = IdleCaller
    /\ channel = [t \in Threads |-> << >>]
    /\ thread = [t \in Threads |-> Waiting("unborn")]
    /\ output = Nil
    /\ packets = 0

\* the ducking loop with the application as lib.rs sets it up
\* the parts that are at rest in a specification of another part
MonitorRest == MonitorIdle
\* no session: run_capture and its locals do not exist
NoAnalysis ==
    /\ smoothed_bins = << >>
    /\ fft_data = NoFrame
    /\ analyzer = NewAnalyzer
AnalysisRest == NoAnalysis /\ trigger_level = NoLevel
CaptureRest == CaptureIdle("spectrum") /\ extraction = NoExtraction

Init == DuckingInit /\ CaptureRest /\ MonitorRest /\ AnalysisRest

Next ==
    \/ Tick
    \/ set_ducking_config
    \/ handle_event
    \/ ExternalVolumeEdit

Spec == Init /\ [][Next]_vars

\* a capture owner with its caller and its threads
CaptureInit ==
    /\ DuckingInit
    /\ \E o \in Owners : CaptureIdle(o)
    /\ extraction = NoExtraction
    /\ MonitorRest /\ AnalysisRest

CaptureNext ==
    \/ start_spectrum
    \/ start_narration_capture
    \/ start_pad_capture
    \/ start_resume
    \/ stop_spectrum
    \/ stop_narration_capture
    \/ stop_pad_capture
    \/ thread_init
    \/ recv_command
    \/ capture_loop

CaptureSpec == CaptureInit /\ [][CaptureNext]_vars

\* extract_samples alone, called once on each buffer and format
ExtractInit ==
    /\ DuckingInit
    /\ CaptureIdle("spectrum")
    /\ extraction \in ExtractInputs
    /\ MonitorRest /\ AnalysisRest

ExtractNext == extract

ExtractSpec == ExtractInit /\ [][ExtractNext]_vars

\* the polling task with a reader of the snapshot
MonitorInit == DuckingInit /\ CaptureRest /\ MonitorIdle /\ AnalysisRest

MonitorNext ==
    \/ poll_pass
    \/ publish
    \/ emit_peak_levels
    \/ get_audio_metrics

MonitorSpec == MonitorInit /\ [][MonitorNext]_vars

\* the bins of the frames of one session
BinsInit ==
    /\ DuckingInit /\ CaptureRest /\ MonitorRest
    /\ AnalysisIdle /\ trigger_level = NoLevel

BinsNext == fft_bins

BinsSpec == BinsInit /\ [][BinsNext]_vars

\* the ring buffer and the emit clocks of one session
FftInit ==
    /\ DuckingInit /\ CaptureRest /\ MonitorRest
    /\ smoothed_bins = << >> /\ fft_data = NoFrame /\ analyzer = NewAnalyzer
    /\ trigger_level = NoLevel

FftNext ==
    \/ analyzer_sleep
    \/ analyze_packet

FftSpec == FftInit /\ [][FftNext]_vars

\* the trigger level conversion, applied once to each peak and threshold
LevelInit ==
    /\ DuckingInit /\ CaptureRest /\ MonitorRest /\ NoAnalysis
    /\ trigger_level \in LevelInputs

LevelNext == evaluate_trigger

LevelSpec == LevelInit /\ [][LevelNext]_vars

-----------------------------------------------------------------------------
(* Properties *)

\* a step of the loop: the other actions change config or edits, or shorten events
TickStep == config' = config /\ edits' = edits /\ Len(events') >= Len(events)

LastSent == sent[Len(sent)]
Kinds(log) == [i \in 1..Len(log) |-> log[i].kind]
IsPrefix(a, b) == Len(a) <= Len(b) /\ a = SubSeq(b, 1, Len(a))
\* the latest tick evaluated the trigger (enabled configuration, resolved trigger)
Evaluated == trigger_device_id' # None

\* the scenario is over after this many ticks, whatever the truncations
ScnDone == ScnEnd - 1

\* C1: in the scenario (50 ms tick, threshold -40, attack 50, hold 100,
\* release 100, trigger inactive for one tick, active for three, inactive ever
\* after, requests succeeding) the controller started in Idle passes through
\* exactly Idle, Attacking, Ducking, Holding, Releasing, Idle in that order and
\* issues exactly one duck command and then one restore command.
C1_Scenario ==
    scn >= 1 =>
        /\ IsPrefix(scnTrace, ScenarioExpected)
        /\ IsPrefix(Kinds(sent), << "duck", "restore" >>)
        /\ scn >= ScnDone =>
              /\ scnTrace = ScenarioExpected
              /\ Kinds(sent) = << "duck", "restore" >>
              /\ status = "Idle"

C1_Witness ==
    scn = ScnEnd /\ scnTrace = ScenarioExpected /\ Len(sent) = 2

\* C2: the command issued on Attacking -> Ducking carries the cached original
\* volume plus duck_amount_db, and the command issued on Releasing -> Idle
\* carries exactly the cached original volume, whatever the target's volume is
\* at that time: a successful restore leaves the target at the cached volume.
C2_VolumeArithmetic ==
    [][TickStep =>
        /\ (status = "Attacking" /\ status' = "Ducking" /\ original_volume_db # Nil) =>
              /\ Len(sent') = Len(sent) + 1
              /\ sent'[Len(sent')].kind = "duck"
              /\ sent'[Len(sent')].db = Val(original_volume_db) + config.duck_amount_db
        /\ (status = "Releasing" /\ status' = "Idle" /\ Evaluated
              /\ original_volume_db # Nil) =>
              /\ Len(sent') = Len(sent) + 1
              /\ sent'[Len(sent')].kind = "restore"
              /\ sent'[Len(sent')].db = Val(original_volume_db)
              /\ sent'[Len(sent')].ok =>
                    remote_volume'[config.target_source] = Val(original_volume_db)
    ]_vars

\* the example of the specification (-10, -14: -24 and then -10), with an
\* external edit of the target made after the original volume was read and
\* overwritten by the restore
C2_Witness ==
    /\ Len(sent) = 2
    /\ sent[1].kind = "duck" /\ sent[1].db = -24 /\ sent[1].ok
    /\ sent[2].kind = "restore" /\ sent[2].db = -10 /\ sent[2].ok
    /\ status = "Idle" /\ notified = "Idle"
    /\ edits = 1
    /\ remote_volume["music"] = -10

\* C3: a tick that finds the configuration disabled or a source name empty
\* ends in Disabled with an empty cache; if the status was not Disabled and a
\* volume was cached, exactly one restore command carrying it is issued;
\* otherwise (and whenever the status was already Disabled) none is issued.
C3_ForcedDisable ==
    [][(TickStep /\ ConfigInactive(config)) =>
        /\ status' = "Disabled"
        /\ original_volume_db' = Nil
        /\ IF status # "Disabled" /\ original_volume_db # Nil
           THEN /\ Len(sent') = Len(sent) + 1
                /\ sent'[Len(sent')].kind = "restore"
                /\ sent'[Len(sent')].db = Val(original_volume_db)
           ELSE sent' = sent
        /\ status = "Disabled" => (sent' = sent /\ notified' = None)
    ]_vars

C3_Witness ==
    /\ status = "Disabled" /\ notified = "Disabled"
    /\ ConfigInactive(config)
    /\ Len(sent) = 2 /\ sent[1].kind = "duck" /\ sent[2].kind = "restore"
    /\ sent[2].db = InitialVolume["music"]

\* C4: at every tick boundary at which the status is Attacking, Ducking,
\* Holding or Releasing the original-volume cache holds a value.
C4_CacheNonEmpty ==
    status \in {"Attacking", "Ducking", "Holding", "Releasing"}
        => original_volume_db # Nil

\* C5: at every tick boundary at which the status is Idle the cache is empty.
C5_IdleCacheEmpty == status = "Idle" => original_volume_db = Nil

\* C6: a tick in Attacking that observes the trigger inactive before
\* attack_ms has elapsed ends in Idle with the cache discarded and no command
\* issued; no command is issued on entering or staying in Attacking; and an
\* Idle -> Attacking transition with an empty cache reads the target's volume.
C6_AttackAbort ==
    [][TickStep =>
        /\ (status = "Attacking" /\ Evaluated /\ ~voice_active'
              /\ elapsed' < config.attack_ms) =>
              /\ status' = "Idle"
              /\ original_volume_db' = Nil
              /\ sent' = sent
        /\ status' = "Attacking" => sent' = sent
        /\ (status = "Idle" /\ status' = "Attacking" /\ original_volume_db = Nil) =>
              /\ volume_read' # NoRead
              /\ volume_read'.via = "remote" =>
                    original_volume_db' \in {Nil, RemoteVolume(config.target_source)}
    ]_vars

\* an attack under ScenarioConfig aborted after 49 ms
C6_Witness ==
    /\ status = "Idle" /\ notified = "Idle"
    /\ trigger_device_id # None /\ ~voice_active
    /\ elapsed = 49
    /\ original_volume_db = Nil /\ sent = << >>

\* C7: a tick in Idle that evaluates the trigger and finds it inactive leaves
\* the status Idle and the cache unchanged, issues no volume command and emits
\* no status notification.
C7_IdleIdempotent ==
    [][(TickStep /\ status = "Idle" /\ Evaluated /\ ~voice_active') =>
        /\ status' = "Idle"
        /\ original_volume_db' = original_volume_db
        /\ sent' = sent
        /\ remote_volume' = remote_volume
        /\ notified' = None
    ]_vars

C7_Witness ==
    /\ status = "Idle" /\ notified = None
    /\ trigger_device_id # None /\ ~voice_active
    /\ config = ScenarioConfig

\* C8: a tick in Holding or Releasing that observes the trigger active ends in
\* Ducking, and no tick that starts in Ducking, Holding or Releasing and ends
\* in Ducking, Holding or Releasing issues a volume command or changes the
\* cache or the target's volume.
C8_Hysteresis ==
    [][TickStep =>
        /\ (status \in {"Holding", "Releasing"} /\ voice_active') =>
              status' = "Ducking"
        /\ (status \in {"Ducking", "Holding", "Releasing"}
              /\ status' \in {"Ducking", "Holding", "Releasing"}) =>
              /\ sent' = sent
              /\ remote_volume' = remote_volume
              /\ original_volume_db' = original_volume_db
    ]_vars

\* Ducking re-entered from Holding or Releasing: the duck command is older
\* than one tick and the target is still at the ducked volume
C8_Witness ==
    /\ status = "Ducking" /\ notified = "Ducking" /\ voice_active
    /\ original_volume_db # Nil
    /\ sent # << >> /\ LastSent.kind = "duck" /\ LastSent.ok
    /\ last_self_set # Nil /\ Val(last_self_set) >= 2
    /\ remote_volume["music"] = LastSent.db

\* C9: with no external edit (and, here, even with every request succeeding)
\* the cached original volume always equals the target's volume before the
\* first duck, every restore command carries it and every duck command carries
\* it plus a configured duck amount.
C9_NoCompounding ==
    (edits = 0 /\ \A i \in 1..Len(sent) : sent[i].ok) =>
        /\ original_volume_db # Nil =>
              Val(original_volume_db) = InitialVolume["music"]
        /\ \A i \in 1..Len(sent) :
              /\ sent[i].kind = "restore" => sent[i].db = InitialVolume[sent[i].target]
              /\ sent[i].kind = "duck" =>
                    \E c \in Configs :
                       sent[i].db = InitialVolume[sent[i].target] + c.duck_amount_db

\* C10: a read of the target's volume is served from obs_state, without a
\* request, exactly when the loop's last volume write is less than 500 ms old;
\* with no previous write, or 500 ms or more after it, GetInputVolume is sent.
C10_SelfEcho ==
    [][(TickStep /\ volume_read' # NoRead) =>
        /\ volume_read'.via = "local" <=>
              (volume_read'.since # Nil /\ Val(volume_read'.since) < SelfSetWindowMs)
        /\ last_self_set = Nil => volume_read'.since = Nil
        /\ last_self_set # Nil =>
              /\ volume_read'.since # Nil
              /\ Val(volume_read'.since) \in
                    {Val(last_self_set) * TickMs - t : t \in TruncMs}
        /\ volume_read'.via = "local" =>
              original_volume_db' = MirrorVolume(config.target_source)
        /\ volume_read'.via = "remote" =>
              original_volume_db' \in {Nil, RemoteVolume(config.target_source)}
    ]_vars

\* a read served from obs_state one tick after a restore
C10_Witness ==
    /\ volume_read # NoRead /\ volume_read.via = "local"
    /\ status = "Attacking"
    /\ Len(sent) = 2 /\ LastSent.kind = "restore"
    /\ original_volume_db = Some(obs_volume["music"])

\* a tick whose GetInputVolume request failed, and one whose SetInputVolume
\* request failed
GetFailed ==
    volume_read' # NoRead /\ volume_read'.via = "remote" /\ original_volume_db' = Nil
SetFailed == Len(sent') = Len(sent) + 1 /\ ~sent'[Len(sent')].ok

\* C11: a tick whose get_volume or set_volume request fails is skipped: the
\* status and the cache after the tick are as they were before it (so that the
\* same operation is attempted again by the next tick).
C11_FailureSkipsTick ==
    [][(TickStep /\ (GetFailed \/ SetFailed)) =>
        /\ status' = status
        /\ original_volume_db' = original_volume_db
    ]_vars

\* C12: a tick under an enabled configuration with both sources named whose
\* trigger source resolves to no device (absent from the registry, or device
\* "default" or unset with no default input device) ends in Idle and sends
\* nothing; the first later tick at which the trigger resolves evaluates the
\* trigger from Idle: Attacking if it is active, Idle if not.
C12_UnresolvedIdle ==
    [][(TickStep /\ ~ConfigInactive(config)) =>
        /\ trigger_device_id' = None => (status' = "Idle" /\ sent' = sent)
        /\ (trigger_device_id = None /\ status = "Idle" /\ trigger_device_id' # None) =>
              status' = (IF voice_active' THEN "Attacking" ELSE "Idle")
    ]_vars

\* the trigger stopped resolving while the target was ducked
C12_Witness ==
    /\ status = "Idle" /\ notified = "Idle"
    /\ ~ConfigInactive(config) /\ trigger_device_id = None
    /\ sent # << >> /\ LastSent.kind = "duck"

\* C13: a tick emits a status notification exactly when it changes the status,
\* and the status emitted is the new one: it differs from the status emitted
\* before it (from Disabled for the first), which is the status before the tick.
C13_EmitOnChange ==
    /\ [](last_emitted = status)
    /\ [][TickStep =>
            /\ status' # status => notified' = status'
            /\ status' = status => notified' = None
            /\ notified' # None => notified' # last_emitted
        ]_vars

\* a tick that stays in Ducking after the status was emitted
C13_Witness ==
    /\ status = "Ducking" /\ last_emitted = "Ducking" /\ notified = None
    /\ voice_active

-----------------------------------------------------------------------------
(* Properties of the capture owners *)

ActiveThreads == {t \in Threads : Active(t)}

\* thread t takes the command at the head of its channel
Takes(t) == channel[t] # << >> /\ channel'[t] = Tail(channel[t])

\* nothing is left for the capture threads to do but rounds of a capture loop:
\* every channel is empty, no thread is starting up, and every thread whose
\* channel was hung up has gone
Drained ==
    \A t \in Threads :
       /\ channel[t] = << >>
       /\ thread[t].pc # "init"
       /\ thread[t].pc \in {"recv", "capture"} => SenderAlive(t)

\* a stop call
StopStep == caller'.stops = caller.stops + 1

\* C14: at no moment are two capture sessions of one owner active at once.
C14_OneSession == Cardinality(ActiveThreads) <= 1

\* C15: an owner spawns at most one capture thread over its lifetime.
C15_OneThread == Cardinality(Spawned) <= 1

C17_DeviceLossEnds == \A t \in Threads : ~(Active(t) /\ thread[t].failed)

\* C18: a waiting thread that takes a Start command either has a session
\* active or, when the set-up of the endpoint failed, is waiting again with
\* no session; it never exits, and nothing else changes.
C18_OpenFailure ==
    [][\A t \in Threads :
          (thread[t].pc = "recv" /\ Takes(t) /\ Head(channel[t]).kind = "Start") =>
             /\ thread'[t].pc \in {"capture", "recv"}
             /\ thread'[t].pc = "recv" => thread'[t] = Waiting("recv")
             /\ capture_state' = capture_state
             /\ \A u \in Threads \ {t} : thread'[u] = thread[u]
      ]_vars

\* the set-up failed for the first Start: the thread took it, no session is
\* active and the thread waits for the next command
C18_Witness ==
    /\ caller.calls = 1 /\ caller.pc = "idle" /\ capture_state.is_running
    /\ capture_state.control_tx = 1
    /\ channel[1] = << >> /\ thread[1].pc = "recv"

\* C19: in every session the number of samples handed to the consumer equals
\* the number of frames delivered times the channel count.
C19_SamplesMatchFrames ==
    \A t \in Threads :
       Active(t) => Len(thread[t].samples) = thread[t].frames * thread[t].channels

\* C20: extract_samples returns frame_count * channels samples for every bit
\* depth, and only zeros for a bit depth other than 16, 24 and 32.
C20_ExtractTotal ==
    extraction.out # Nil =>
        LET out == Val(extraction.out)
        IN  /\ Len(out) = extraction.frame_count * extraction.channels
            /\ extraction.bits_per_sample \notin {16, 24, 32} =>
                  \A i \in 1..Len(out) : out[i] = ZeroSample

\* two frames of two channels in an unsupported format
C20_Witness ==
    /\ extraction.out # Nil
    /\ extraction.bits_per_sample = 8
    /\ extraction.frame_count = 2 /\ extraction.channels = 2
    /\ Len(Val(extraction.out)) = 4

\* the raw values of the samples that were read from a buffer, in the order
\* the consumer holds them
RawOf(samples) == [i \in 1..Len(samples) |-> samples[i][1]]
InPacketOrder(samples) ==
    \A i, j \in 1..Len(samples) :
        (i < j /\ samples[i] # ZeroSample /\ samples[j] # ZeroSample) =>
            RawOf(samples)[i] < RawOf(samples)[j]

\* a step in which thread t leaves its session on a Stop command
EndsByStop(t) ==
    /\ thread[t].pc = "capture"
    /\ thread'[t].pc = "recv"
    /\ channel[t] # << >>
    /\ Head(channel[t]).kind = "Stop"

\* C21: within a session of narration or pad the consumer holds the samples
\* of the packets in the order of their delivery, one per frame and channel,
\* each once; and when the session ends by Stop the file written holds one
\* 16-bit value for each of them, in that order.
C21_OrderedOutput ==
    /\ [](\A t \in Threads :
            (Active(t) /\ WritesWav(owner)) =>
                /\ Len(thread[t].samples) = thread[t].frames * thread[t].channels
                /\ InPacketOrder(thread[t].samples))
    /\ [][\A t \in Threads :
            (EndsByStop(t) /\ WritesWav(owner) /\ output' # output) =>
                /\ output' # Nil
                /\ Len(Val(output')) = thread[t].frames * thread[t].channels
                /\ \A i \in 1..Len(Val(output')) :
                      Val(output')[i] = PcmSample(thread[t].samples[i])
       ]_vars

\* a narration file with the data of two packets of two frames and two
\* channels, the first with 16-bit samples and the second silent
C21_Witness ==
    /\ owner = "narration"
    /\ output # Nil
    /\ Len(Val(output)) = 8
    /\ Val(output)[1] > 0
    /\ Val(output)[2] > Val(output)[1]
    /\ Val(output)[8] = 0
    /\ \A t \in Threads : ~Active(t)

-----------------------------------------------------------------------------
(* Properties of the peak-meter polling *)

\* the endpoints whose peak the latest pass read
Polled == {e \in Endpoints : poller.pass.query[e].kind = "peak"}
\* a step of the polling task
PublishStep == poller.pc = "publish" /\ poller'.pc = "emit"
EmitStep == poller.pc = "emit" /\ poller'.pc = "tick"
PassStep == poller'.passes = poller.passes + 1

\* C22: the shared snapshot only ever changes by being replaced whole with
\* the snapshot of a successful pass, whose keys are exactly the devices that
\* pass returned; a reader takes the snapshot as it is at that moment, and
\* outside the window between a pass and its publication the shared snapshot
\* is the one of the latest successful pass.
C22_AtomicSnapshot ==
    /\ [][/\ audio_metrics' # audio_metrics => PublishStep
          /\ PublishStep =>
                /\ audio_metrics' = poller.metrics_snapshot
                /\ DOMAIN audio_metrics' = Polled
          /\ metrics_read' # metrics_read => metrics_read' = Some(audio_metrics)
       ]_vars
    /\ [](poller.pc # "publish" =>
             /\ audio_metrics = poller.metrics_snapshot
             /\ poller.pass.ok => DOMAIN audio_metrics = Polled)

\* a reader holds the snapshot of two devices while the shared snapshot has
\* been replaced by one without dev0
C22_Witness ==
    /\ metrics_read # Nil
    /\ DOMAIN Val(metrics_read) = {"dev0", "dev1"}
    /\ DOMAIN audio_metrics = {"dev1"}

\* C23: a pass that fails as a whole leaves the shared snapshot and the RMS
\* and noise-floor windows of every device as they were, emits no peak-levels
\* notification and leaves the task at the head of its loop, ready for the
\* next tick.
C23_FailedPassSkipped ==
    [][(PassStep /\ ~poller'.pass.ok) =>
          /\ audio_metrics' = audio_metrics
          /\ poller'.ring_buffers = poller.ring_buffers
          /\ poller'.noise_floor_history = poller.noise_floor_history
          /\ peak_levels' = Nil
          /\ poller'.pc = "tick"
      ]_vars

C23_Witness ==
    /\ ~poller.pass.ok
    /\ poller.passes = 2
    /\ poller.pc = "tick"
    /\ DOMAIN audio_metrics = {"dev0", "dev1"}
    /\ poller.ring_buffers["dev0"] = << 8 >>
    /\ poller.noise_floor_history["dev0"] = << 8 >>

\* C24: when the query of an endpoint fails in a pass, the pass succeeds and
\* the snapshot published for it holds the metrics of exactly the other
\* endpoints whose peak was read.
C24_EndpointOmitted ==
    (/\ poller.pc # "publish"
     /\ poller.pass.ok
     /\ \E e \in Endpoints : poller.pass.query[e].kind = "error") =>
        \A e \in Endpoints :
            /\ poller.pass.query[e].kind = "error" => e \notin DOMAIN audio_metrics
            /\ poller.pass.query[e].kind = "peak" =>
                  /\ e \in DOMAIN audio_metrics
                  /\ audio_metrics[e].peak = poller.pass.query[e].peak

C24_Witness ==
    /\ poller.pc = "tick"
    /\ poller.pass.ok
    /\ poller.pass.query["dev0"].kind = "error"
    /\ poller.pass.query["dev1"].kind = "peak"
    /\ DOMAIN audio_metrics = {"dev1"}
    /\ audio_metrics["dev1"].peak = 20

\* C25: from one published snapshot to the next the noise_floor of a device
\* does not increase (stated for a device whose noise-floor ring already holds
\* a value; the step from the 0 of an empty ring to the first value is an
\* increase as well).
C25_NoiseFloorMonotone ==
    [][\A id \in DOMAIN audio_metrics \cap DOMAIN audio_metrics' :
          audio_metrics[id].noise_floor > 0 =>
              audio_metrics'[id].noise_floor <= audio_metrics[id].noise_floor]_vars

\* the at most RMS_WINDOW most recent peaks of a device
Recent(id) ==
    LET h == poller.history[id]
    IN  SubSeq(h, Max(1, Len(h) - RMS_WINDOW + 1), Len(h))

C27_PeakLevelsEmit ==
    [][/\ peak_levels' # peak_levels /\ peak_levels' # Nil => EmitStep
       /\ EmitStep =>
             /\ peak_levels' # Nil <=>
                   \E e \in Polled : poller.pass.query[e].peak > ActivityPeak
             /\ peak_levels' # Nil =>
                   /\ {Val(peak_levels')[i].device_id :
                          i \in 1..Len(Val(peak_levels'))} = Polled
                   /\ Len(Val(peak_levels')) = Cardinality(Polled)
                   /\ \A i \in 1..Len(Val(peak_levels')) :
                         Val(peak_levels')[i].peak =
                            poller.pass.query[Val(peak_levels')[i].device_id].peak
                   /\ audio_metrics = poller.metrics_snapshot
                   /\ DOMAIN audio_metrics = Polled
      ]_vars

\* a notification carrying a peak below the activity threshold beside one
\* above it, the rms of the quiet device differing from its peak
C27_Witness ==
    /\ peak_levels # Nil
    /\ Len(Val(peak_levels)) = 2
    /\ Val(peak_levels)[1] = [device_id |-> "dev0", peak |-> 0]
    /\ Val(peak_levels)[2] = [device_id |-> "dev1", peak |-> 20]
    /\ audio_metrics["dev0"].rms > 0

-----------------------------------------------------------------------------
(* Properties of the spectrum analysis and of the trigger level *)

\* C28: every emitted spectrum frame has FFT_SIZE / 2 = 1024 bins, each
\* between -100 dB and 0 dB.
C28_BinsRange ==
    fft_data.frames > 0 =>
        /\ Len(fft_data.bins) = FFT_SIZE \div 2
        /\ Len(fft_data.bins) = 1024
        /\ \A i \in 1..Len(fft_data.bins) :
              FloorBinDb <= fft_data.bins[i] /\ fft_data.bins[i] <= CeilBinDb

\* a frame whose odd bins sit at the lower limit and whose even bins at the
\* upper one, the smoothed values lying outside the range
C28_Witness ==
    /\ fft_data.frames >= 2
    /\ fft_data.bins[1] = FloorBinDb /\ smoothed_bins[1] < FloorBinDb
    /\ fft_data.bins[2] = CeilBinDb /\ smoothed_bins[2] > CeilBinDb

\* C29: two consecutive spectrum frames of a session are emitted at least
\* 33 ms apart and two consecutive loudness frames at least 100 ms apart.
C29_EmitIntervals ==
    /\ analyzer.fft_gap # Nil => Val(analyzer.fft_gap) >= FftEmitMs * TicksPerMs
    /\ analyzer.lufs_gap # Nil => Val(analyzer.lufs_gap) >= LufsEmitMs * TicksPerMs

\* both kinds of frame were emitted at least twice, the latest spectrum frame
\* from a packet that filled more than one window
C29_Witness ==
    /\ analyzer.fft_gap # Nil
    /\ analyzer.lufs_gap # Nil
    /\ analyzer.hop # Nil /\ Val(analyzer.hop) > FFT_SIZE \div 2

\* the decimal exponent of a power of ten
RECURSIVE Exp10(_)
Exp10(p) == IF p < 10 THEN 0 ELSE 1 + Exp10(p \div 10)
IsPowerOfTen(p) == p \in {1, 10, 100, 1000, 10000}

\* C30: a peak of at most 0.0001 is converted to exactly -100 dB and a larger
\* one to 20*log10(peak); the conversion is monotonic and never gives less
\* than -100 dB; the trigger is active exactly when the level is strictly
\* above threshold_db.
C30_TriggerLevel ==
    /\ trigger_level.peak_db # Nil =>
          LET p == trigger_level.peak
              db == Val(trigger_level.peak_db)
          IN  /\ p <= SilencePeak => db = FloorDb
              /\ (p > SilencePeak /\ IsPowerOfTen(p)) => db = 20 * (Exp10(p) - 4)
              /\ db >= FloorDb
              /\ trigger_level.voice_active <=> db > trigger_level.threshold_db
    /\ \A p, q \in LevelPeaks : p <= q => PeakDb(p) <= PeakDb(q)
    /\ \A p, q \in LevelPeaks : (SilencePeak < p /\ p < q) => PeakDb(p) < PeakDb(q)

\* a level equal to the threshold: not active
C30_Witness ==
    /\ trigger_level.peak = 100
    /\ trigger_level.threshold_db = 0 - 40
    /\ trigger_level.peak_db = Some(0 - 40)
    /\ ~trigger_level.voice_active

-----------------------------------------------------------------------------
(* Further properties of the ducking controller *)

\* C31: every tick that changes the status, the forced transitions to
\* Disabled and to Idle included, sets the time-entered marker to the time of
\* that tick, so that one tick later one tick has elapsed in the new state.
C31_EnteredReset ==
    [][(TickStep /\ status' # status) => state_ticks' = 1]_vars

-----------------------------------------------------------------------------
(* Further properties of the peak-meter polling *)

\* the noise-floor ring of a device
NoiseRing(p, id) == Entry(p.noise_floor_history, id)

\* C32: the rms computed for a device by a pass enters the device's
\* noise-floor ring only if it is above 0.0001; the ring then keeps the at most
\* 50 most recent values, the oldest leaving first; the rings of the other
\* devices stay; and the noise_floor published is the minimum of the ring, or
\* 0 when the ring is empty.
C32_NoiseFloorRing ==
    /\ [][PassStep =>
            \A id \in Endpoints :
                LET old == NoiseRing(poller, id)
                    new == NoiseRing(poller', id)
                IN  IF poller'.pass.ok /\ id \in Polled'
                    THEN LET rms == poller'.metrics_snapshot[id].rms
                             r == Append(old, rms)
                             n == Min(Len(r), NOISE_FLOOR_WINDOW)
                         IN  new = IF rms > NoiseGate
                                   THEN SubSeq(r, Len(r) - n + 1, Len(r))
                                   ELSE old
                    ELSE new = old
        ]_vars
    /\ [](\A id \in Endpoints :
             LET ring == NoiseRing(poller, id)
             IN  /\ Len(ring) <= NOISE_FLOOR_WINDOW
                 /\ \A i \in 1..Len(ring) : ring[i] > NoiseGate)
    /\ [](poller.pc # "publish" =>
             \A id \in DOMAIN audio_metrics :
                 LET ring == NoiseRing(poller, id)
                     nf == audio_metrics[id].noise_floor
                 IN  IF ring = << >> THEN nf = 0
                     ELSE /\ \E i \in 1..Len(ring) : ring[i] = nf
                          /\ \A i \in 1..Len(ring) : ring[i] >= nf)

\* dev0 after 52 passes: its first rms, 0, never entered the ring, and the
\* oldest value that did has left it
C32_Witness ==
    /\ poller.pc = "tick"
    /\ poller.passes = 52
    /\ "dev0" \in DOMAIN audio_metrics
    /\ Len(Entry(poller.history, "dev0")) = 52
    /\ poller.history["dev0"][1] = 0
    /\ poller.history["dev0"][2] = 20
    /\ Len(NoiseRing(poller, "dev0")) = NOISE_FLOOR_WINDOW
    /\ NoiseRing(poller, "dev0")[1] = 12
    /\ audio_metrics["dev0"].noise_floor = 8

-----------------------------------------------------------------------------
(* Further properties of the spectrum analysis *)

\* C33: every full window is consumed by removing exactly the FFT_SIZE / 2
\* oldest samples, which leaves less than one window in the ring after a
\* packet, and the windows of any two consecutively emitted spectrum frames
\* begin FFT_SIZE / 2 samples apart: they overlap by half.
C33_HalfOverlap ==
    /\ analyzer.ring_len < FFT_SIZE
    /\ analyzer.window_hop # Nil => Val(analyzer.window_hop) = FFT_SIZE \div 2

-----------------------------------------------------------------------------
(* Further properties of the ducking controller: the commands issued *)

\* C34: every restore command that follows a duck command is addressed to
\* the source the duck command was addressed to, whatever was done to
\* target_source in the shared configuration in between.
C34_RestoreTarget ==
    \A i \in 2..Len(sent) :
        (sent[i].kind = "restore" /\ sent[i - 1].kind = "duck") =>
            sent[i].target = sent[i - 1].target

\* C35: the volume commands issued by the loop alternate duck, restore,
\* duck, restore, starting with a duck.
C35_Alternation ==
    \A i \in 1..Len(sent) :
        sent[i].kind = (IF i % 2 = 1 THEN "duck" ELSE "restore")

\* C37: a tick in Attacking that evaluates the trigger at least attack_ms
\* after Attacking was entered ends in Ducking and issues the duck command,
\* whether or not the trigger is active on that tick; with attack_ms = 0 this
\* is the first tick after the Idle -> Attacking transition.
C37_AttackPrecedence ==
    [][(TickStep /\ status = "Attacking" /\ Evaluated
          /\ elapsed' >= config.attack_ms) =>
        /\ status' = "Ducking"
        /\ Len(sent') = Len(sent) + 1
        /\ sent'[Len(sent')].kind = "duck"
        /\ sent'[Len(sent')].target = config.target_source
    ]_vars

-----------------------------------------------------------------------------
(* Further properties of the capture owners: the spectrum commands *)

\* the number of Start commands in flight on a channel
RECURSIVE Starts(_)
Starts(ch) ==
    IF ch = << >> THEN 0
    ELSE (IF Head(ch).kind = "Start" THEN 1 ELSE 0) + Starts(Tail(ch))

\* a start call sends its Start command: at once, or after its sleep
SendsStart ==
    \/ caller.pc = "sleeping" /\ caller'.pc = "idle"
    \/ caller.pc = "idle" /\ caller'.pc = "idle" /\ caller'.calls = caller.calls + 1
          /\ caller'.stops = 0

\* C38: on every command channel of the spectrum owner two Start commands
\* are separated by a Stop, and the command that follows the Start of a
\* running session is a Stop; a Start leaves a channel only by being taken by
\* the waiting thread, which then attempts to open a session; and every Start
\* a start call sends is put on the channel of the owner's thread.
C38_NoStartLost ==
    /\ [](owner = "spectrum" =>
             \A t \in Threads :
                /\ \A i \in 1..Len(channel[t]), j \in 1..Len(channel[t]) :
                      (i < j /\ channel[t][i].kind = "Start"
                             /\ channel[t][j].kind = "Start") =>
                          \E k \in (i + 1)..(j - 1) : channel[t][k].kind = "Stop"
                /\ (Active(t) /\ channel[t] # << >>) =>
                      Head(channel[t]).kind = "Stop")
    /\ [][owner = "spectrum" =>
            /\ \A t \in Threads :
                  Starts(channel'[t]) < Starts(channel[t]) =>
                      /\ thread[t].pc = "recv"
                      /\ Takes(t)
                      /\ thread'[t].pc \in {"capture", "recv"}
            /\ SendsStart =>
                  LET ch == channel'[capture_state'.control_tx]
                  IN  /\ ch # << >>
                      /\ ch[Len(ch)].kind = "Start"
                      /\ Len(ch) = Len(channel[capture_state'.control_tx]) + 1
        ]_vars

-----------------------------------------------------------------------------
(* The ducking loop under fair ticking *)

\* a tick as the hypothesis of eventual restore has it: the configuration is
\* enabled with both sources named, the trigger resolves and is inactive, and
\* the request the tick sends, if any, succeeds
CalmTick ==
    /\ Tick
    /\ ~ConfigInactive(config)
    /\ trigger_device_id' # None
    /\ ~voice_active'
    /\ sent' # sent => sent'[Len(sent')].ok

\* the interval of the loop never stops ticking (ducking.rs:66-67); a tick
\* that changes nothing is a stuttering step, so fairness is asked of the
\* ticks that do something
FairSpec == Init /\ [][Next]_vars /\ WF_vars(CalmTick)

\* the latest tick was calm and the command log of the model has room
Calm ==
    /\ ~ConfigInactive(config)
    /\ trigger_device_id # None
    /\ ~voice_active
    /\ Len(sent) < MaxCmds
    /\ \A i \in 1..Len(sent) : sent[i].ok

\* C36: if from some tick on the configuration stays enabled with a
\* resolvable trigger, the trigger stays inactive and the requests succeed,
\* the controller ends up in Idle with an empty cache for good, and if a duck
\* command was ever issued the last command sent is a restore.
C36_EventualRestore ==
    <>[]Calm =>
        <>[](/\ status = "Idle"
             /\ original_volume_db = Nil
             /\ sent # << >> => LastSent.kind = "restore")

-----------------------------------------------------------------------------
(* The spectrum owner with its capture thread running *)

SpectrumNext ==
    \/ start_spectrum
    \/ start_resume
    \/ stop_spectrum
    \/ thread_init
    \/ recv_command
    \/ capture_loop

\* the capture thread is a thread of its own: it is not held up for ever in
\* front of rx.recv() with a command waiting, nor in front of a round of the
\* capture loop, whose sleep is 15 ms and whose packet loop ends when the
\* endpoint has no packet waiting
SpectrumSpec ==
    Init /\ [][SpectrumNext]_vars /\ WF_vars(recv_command) /\ WF_vars(capture_loop)

\* a session is active on thread t and a Stop is on its way
StopPending(t) ==
    /\ Active(t)
    /\ \E i \in 1..Len(channel[t]) : channel[t][i].kind = "Stop"

\* C39: once a Stop is sent to a thread with an active session the thread
\* eventually waits for a command again; the round that observes the Stop
\* takes no packet and ends the session, and packets are only ever taken (and
\* frames emitted for them) by a session with no command waiting.
C39_StopHonoured ==
    /\ \A t \in Threads : StopPending(t) ~> thread[t].pc = "recv"
    /\ [][/\ \A t \in Threads :
                (Active(t) /\ Takes(t)) =>
                    /\ Head(channel[t]).kind = "Stop"
                    /\ thread'[t] = Waiting("recv")
                    /\ packets' = packets
          /\ packets' # packets =>
                \E t \in Threads :
                   Active(t) /\ channel[t] = << >> /\ thread'[t].pc = "capture"
        ]_vars

\* a session that took packets was ended by the Stop of a stop call, and the
\* thread waits
C39_Witness ==
    /\ caller.pc = "idle" /\ caller.stops = 1 /\ caller.calls = 2
    /\ ~capture_state.is_running
    /\ packets > 0
    /\ channel[1] = << >> /\ thread[1] = Waiting("recv")

====
